---- MODULE Spec2Model ----
(***************************************************************************)
(* A model of the LiDAR point-cloud viewer: the loader (src/src/loader.py, *)
(* src/src/cityscape_viewer.py) and the orbit camera and input callbacks   *)
(* of the renderer (src/src/renderer.py).                                  *)
(*                                                                         *)
(* Units.  Coordinates are whole metres.  A voxel size is a whole number   *)
(* of 1/Scale metres, so that floor(coordinate / voxel_size) can exceed    *)
(* the 32-bit range although every number of the model fits in it.         *)
(* Colour channels and the camera distance are exact fractions <<n, d>>    *)
(* in lowest terms.  Angles are whole half-degrees.                        *)
(***************************************************************************)
EXTENDS Integers, Sequences, FiniteSets, TLC

VARIABLES
    las,        \* the container laspy.read returns (or the absent file)
    fn,         \* the entry point being executed
    args,       \* its arguments, named as in the source
    cast_mode,  \* what this build's float -> int32 cast does out of range
    pc,         \* position in the entry point
    points,     \* the local `points` (N x 3)
    colors,     \* the local `colors`: None or an N x 3 array
    indices,    \* the last index selection (unique_indices, indices, mask)
    metadata,   \* the metadata dict, None until it is built
    err,        \* the exception raised, None while there is none
    camera,        \* renderer.camera
    scene,         \* renderer.points / renderer.colors, None until loaded
    mouse_pressed, \* renderer.mouse_pressed
    mouse_button,  \* renderer.mouse_button
    last_mouse,    \* (renderer.last_mouse_x, renderer.last_mouse_y)
    cursor,        \* where the window system has the cursor
    point_size,    \* renderer.point_size
    should_close,  \* the window's close flag
    window_size,   \* (renderer.width, renderer.height)
    transforms,    \* the projection and view of the frame being rendered
    events,        \* input events delivered so far
    main_pc,       \* position in main()
    window,        \* the GLFW window: "none", "open" or "terminated"
    polls,         \* calls of glfw.poll_events so far
    frames,        \* frames render() has presented so far
    signal_at,     \* (polls, frames) when the close flag was set, else None
    called         \* the Camera calls the last callback made, in order

dataVars == <<las, args, cast_mode, indices, metadata>>
loaderVars == <<las, fn, args, cast_mode, pc, points, colors, indices, metadata, err>>
controlVars == <<mouse_pressed, mouse_button, last_mouse>>
viewerVars ==
    <<camera, scene, mouse_pressed, mouse_button, last_mouse, cursor,
      point_size, should_close, window_size, transforms, events, main_pc, window, polls,
      frames, signal_at, called>>
loopVars == <<main_pc, window, polls, frames>>

vars == <<loaderVars, viewerVars>>

----------------------------------------------------------------------------
(* Bounds of the model *)

\* voxel sizes are multiples of 1/Scale metre
Scale == 1000
\* longest point array handed to voxel_downsample directly
MaxVoxelPoints == 3
\* longest point array handed to remove_outliers directly
MaxOutlierPoints == 4
\* most points in a container that a load reads
MaxLoadPoints == 3
\* most input events delivered to the window
MaxEvents == 3
\* most iterations of the render loop
MaxFrames == 2
\* most direct calls of Camera.rotate in a row
MaxRotations == 3
\* largest classification code, of either sign, looked up directly
MaxCode == 60

----------------------------------------------------------------------------
(* Python values *)

None == <<>>
Some(v) == <<v>>
\* `if x:` on an optional number
Truthy(opt) == opt # None /\ opt[1] # 0

Abs(n) == IF n < 0 THEN -n ELSE n

RECURSIVE GCD(_, _)
GCD(a, b) == IF b = 0 THEN Abs(a) ELSE GCD(b, a % Abs(b))

\* the fraction n/d (d > 0) in lowest terms
Frac(n, d) ==
    LET g == GCD(n, d) IN <<n \div g, d \div g>>

\* floats, as exact fractions
R(n) == <<n, 1>>
RAdd(a, b) == Frac(a[1] * b[2] + b[1] * a[2], a[2] * b[2])
RSub(a, b) == Frac(a[1] * b[2] - b[1] * a[2], a[2] * b[2])
RMul(a, b) == Frac(a[1] * b[1], a[2] * b[2])
\* a / b for b > 0
RDiv(a, b) == Frac(a[1] * b[2], a[2] * b[1])
RLess(a, b) == a[1] * b[2] < b[1] * a[2]
RLeq(a, b) == a[1] * b[2] <= b[1] * a[2]
RMin(a, b) == IF RLess(b, a) THEN b ELSE a
RMax(a, b) == IF RLess(a, b) THEN b ELSE a
RAbs(a) == <<Abs(a[1]), a[2]>>
\* np.clip(a, lo, hi)
RClip(a, lo, hi) == RMin(RMax(a, lo), hi)

SetMin(S) == CHOOSE m \in S : \A o \in S : m <= o
SetMax(S) == CHOOSE m \in S : \A o \in S : m >= o

Range(s) == {s[i] : i \in DOMAIN s}

BoundedSeqs(S, n) == UNION {[1..k -> S] : k \in 0..n}

RECURSIVE Ascending(_)
Ascending(S) ==
    IF S = {} THEN <<>> ELSE <<SetMin(S)>> \o Ascending(S \ {SetMin(S)})

\* arr[idx] for an integer index array (numpy counts from 0, the model from 1)
Take(arr, idx) == [j \in DOMAIN idx |-> arr[idx[j]]]

----------------------------------------------------------------------------
(* The container *)

\* one LAS point record: coordinates, 16-bit colour channels, class code
LasRecord(x, y, z, r, g, b, c) ==
    [x |-> x, y |-> y, z |-> z, red |-> r, green |-> g, blue |-> b,
     classification |-> c]

RecA == LasRecord(0, 0, 0, 65535, 0, 0, 6)
RecB == LasRecord(1, 0, 0, 0, 65535, 0, 999)
RecC == LasRecord(3, -1, 0, 0, 0, 65535, 2)
RecD == LasRecord(0, -1, 1, 65535, 65535, 0, 9)
RecE == LasRecord(3000000, 0, 0, 0, 65535, 65535, 5)
RecF == LasRecord(4000000, 0, 0, 65535, 0, 65535, 11)
RecG == LasRecord(-3000000, 0, 0, 32768, 32768, 32768, 1)

\* a readable file: what laspy.read(filepath) returns
Container(recs, hasRed, hasClass) ==
    [exists |-> TRUE, readable |-> TRUE, recs |-> recs, has_red |-> hasRed,
     has_classification |-> hasClass]

\* a path with no file, and a file that is no LAS container
AbsentFile ==
    [exists |-> FALSE, readable |-> FALSE, recs |-> <<>>, has_red |-> FALSE,
     has_classification |-> FALSE]
GarbageFile == [AbsentFile EXCEPT !.exists = TRUE]

\* np.vstack([las.x, las.y, las.z]).T
XYZ(l) == [i \in DOMAIN l.recs |-> <<l.recs[i].x, l.recs[i].y, l.recs[i].z>>]

\* np.vstack([las.red / 65535.0, las.green / 65535.0, las.blue / 65535.0]).T
RGB(l) ==
    [i \in DOMAIN l.recs |->
        <<Frac(l.recs[i].red, 65535), Frac(l.recs[i].green, 65535),
          Frac(l.recs[i].blue, 65535)>>]

----------------------------------------------------------------------------
(* voxel_downsample *)

MaxInt32 == 2147483647
MinInt32 == -MaxInt32 - 1

\* floor(c / voxel_size) for c metres and voxel_size /Scale metres, as the
\* pair <<q, t>> that stands for q * Scale + t with t in 0 .. Scale-1.
FloorKey(c, voxel_size) ==
    LET cc == IF voxel_size > 0 THEN c ELSE -c
        vv == Abs(voxel_size)
    IN  <<cc \div vv, ((cc % vv) * Scale) \div vv>>

PairLeq(a, b) == a[1] < b[1] \/ (a[1] = b[1] /\ a[2] <= b[2])

FitsInt32(k) ==
    /\ PairLeq(k, <<MaxInt32 \div Scale, MaxInt32 % Scale>>)
    /\ PairLeq(<<MinInt32 \div Scale, MinInt32 % Scale>>, k)

\* .astype(np.int32): the value when it fits; out of range the C cast is
\* undefined: SSE's cvttsd2si gives the "integer indefinite" INT_MIN,
\* AArch64's fcvtzs saturates.
CastModes == {"indefinite", "saturate"}

AsInt32(k) ==
    IF FitsInt32(k) THEN k[1] * Scale + k[2]
    ELSE IF cast_mode = "saturate" /\ k[1] > 0 THEN MaxInt32
    ELSE MinInt32

\* np.floor(points / voxel_size).astype(np.int32)
voxel_indices(pts, voxel_size) ==
    [i \in DOMAIN pts |->
        [a \in 1..3 |-> AsInt32(FloorKey(pts[i][a], voxel_size))]]

\* the order of rows under np.unique(axis=0)
LexLess(a, b) ==
    \/ a[1] < b[1]
    \/ a[1] = b[1] /\ a[2] < b[2]
    \/ a[1] = b[1] /\ a[2] = b[2] /\ a[3] < b[3]

RECURSIVE SortRows(_)
SortRows(S) ==
    IF S = {} THEN <<>>
    ELSE LET m == CHOOSE r \in S : \A o \in S \ {r} : LexLess(r, o)
         IN  <<m>> \o SortRows(S \ {m})

FirstOccurrence(rows, r) ==
    SetMin({i \in DOMAIN rows : rows[i] = r})

\* a dedup that keeps every point
all_indices(rows) == [i \in DOMAIN rows |-> i]

\* a hash-based dedup: the distinct rows in the order they are first met
FirstSeenIndices(rows) ==
    Ascending({FirstOccurrence(rows, rows[i]) : i \in DOMAIN rows})

\* _, unique_indices = np.unique(voxel_indices, axis=0, return_index=True):
\* the distinct rows sorted, each with the index of its first occurrence
unique_indices(rows) ==
    LET sorted == SortRows(Range(rows))
    IN  [j \in DOMAIN sorted |-> FirstOccurrence(rows, sorted[j])]

\* a dedup that returns the voxels last met first
voxel_downsample_reversed(pts, cols, voxel_size) ==
    LET up == FirstSeenIndices(voxel_indices(pts, voxel_size))
        ui == [j \in DOMAIN up |-> up[Len(up) + 1 - j]]
    IN  [points |-> Take(pts, ui),
         colors |-> IF cols # None THEN Some(Take(cols[1], ui)) ELSE None,
         unique_indices |-> ui]

\* a dedup that selects the points and leaves the colours as they were
voxel_downsample_points_only(pts, cols, voxel_size) ==
    LET ui == unique_indices(voxel_indices(pts, voxel_size))
    IN  [points |-> Take(pts, ui), colors |-> cols, unique_indices |-> ui]

voxel_downsample(pts, cols, voxel_size) ==
    LET ui == unique_indices(voxel_indices(pts, voxel_size))
    IN  [points |-> Take(pts, ui),
         colors |-> IF cols # None THEN Some(Take(cols[1], ui)) ELSE None,
         unique_indices |-> ui]

----------------------------------------------------------------------------
(* Direct calls of PointCloudLoader.voxel_downsample *)

VoxelRecs == {RecA, RecB, RecC, RecD, RecE, RecF, RecG}
VoxelSizes == {1, 2000, -2000}

\* the renderer's state while only the loader runs
NoViewer ==
    /\ camera = None
    /\ scene = None
    /\ mouse_pressed = FALSE
    /\ mouse_button = None
    /\ last_mouse = <<0, 0>>
    /\ cursor = <<0, 0>>
    /\ point_size = R(2)
    /\ should_close = FALSE
    /\ window_size = <<1920, 1080>>
    /\ transforms = None
    /\ events = 0
    /\ main_pc = "none"
    /\ window = "none"
    /\ polls = 0
    /\ frames = 0
    /\ signal_at = None
    /\ called = <<>>

NoArgs ==
    [voxel_size |-> None, max_points |-> None, downsample_voxel |-> None,
     remove_outliers |-> FALSE, nb_neighbors |-> None, std_ratio |-> None]

InitVoxel ==
    /\ NoViewer
    /\ fn = "voxel_downsample"
    /\ \E recs \in BoundedSeqs(VoxelRecs, MaxVoxelPoints), hasRed \in BOOLEAN :
          /\ las = Container(recs, hasRed, TRUE)
          /\ points = XYZ(las)
          /\ colors = IF hasRed THEN Some(RGB(las)) ELSE None
    /\ \E v \in VoxelSizes : args = [NoArgs EXCEPT !.voxel_size = Some(v)]
    /\ cast_mode \in CastModes
    /\ pc = "call"
    /\ indices = None
    /\ metadata = None
    /\ err = None

VoxelDownsampleCall ==
    /\ fn = "voxel_downsample"
    /\ pc = "call"
    /\ LET out == voxel_downsample(points, colors, args.voxel_size[1])
       IN  /\ points' = out.points
           /\ colors' = out.colors
           /\ indices' = Some(out.unique_indices)
    /\ pc' = "done"
    /\ UNCHANGED <<las, fn, args, cast_mode, metadata, err>>
    /\ UNCHANGED viewerVars

\* the arrays a call returned are handed to voxel_downsample again, with
\* the same voxel size
VoxelDownsampleAgain ==
    /\ fn = "voxel_downsample"
    /\ pc = "done"
    /\ LET out == voxel_downsample(points, colors, args.voxel_size[1])
       IN  /\ points' = out.points
           /\ colors' = out.colors
           /\ indices' = Some(out.unique_indices)
    /\ pc' = "twice"
    /\ UNCHANGED <<las, fn, args, cast_mode, metadata, err>>
    /\ UNCHANGED viewerVars

NextVoxel == VoxelDownsampleCall \/ VoxelDownsampleAgain

SpecVoxel == InitVoxel /\ [][NextVoxel]_vars

----------------------------------------------------------------------------
(* remove_outliers *)

\* IEEE values that the distance statistics can take besides a number
Fin(n) == [kind |-> "fin", v |-> n]
Inf == [kind |-> "inf", v |-> 0]

SqDist(p, q) ==
    (p[1] - q[1]) * (p[1] - q[1]) + (p[2] - q[2]) * (p[2] - q[2])
      + (p[3] - q[3]) * (p[3] - q[3])

\* the Euclidean distance; the model's inputs keep every distance whole
Dist(p, q) == CHOOSE r \in 0..SqDist(p, q) : r * r = SqDist(p, q)

RECURSIVE SortBy(_, _)
SortBy(I, f) ==
    IF I = {} THEN <<>>
    ELSE LET m == CHOOSE j \in I : \A o \in I : f[j] <= f[o]
         IN  <<f[m]>> \o SortBy(I \ {m}, f)

\* distances, _ = tree.query(points, k): for each point the distances to
\* its k nearest points of the tree (itself first, at 0), ascending;
\* scipy reports a missing neighbour as an infinite distance
query(pts, k) ==
    [i \in DOMAIN pts |->
        LET d == [j \in DOMAIN pts |-> Dist(pts[i], pts[j])]
            near == SortBy(DOMAIN pts, d)
        IN  [n \in 1..k |-> IF n <= Len(pts) THEN Fin(near[n]) ELSE Inf]]

RECURSIVE SumFrom(_, _)
SumFrom(row, n) ==
    IF n > Len(row) THEN 0 ELSE row[n].v + SumFrom(row, n + 1)

\* distances[:, 1:].mean(axis=1), kept as the row sums: every row has
\* nb_neighbors terms, so the mean is the sum over nb_neighbors
row_sums(distances) ==
    [i \in DOMAIN distances |->
        IF \E n \in 2..Len(distances[i]) : distances[i][n] = Inf THEN Inf
        ELSE Fin(SumFrom(distances[i], 2))]

RECURSIVE SumSeq(_, _)
SumSeq(s, n) == IF n > Len(s) THEN 0 ELSE s[n] + SumSeq(s, n + 1)

\* mean_distances < threshold, threshold = global_mean + std_ratio * global_std.
\* An infinite mean distance makes global_mean inf and global_std nan, so
\* the threshold is nan and every comparison with it is false.  Otherwise,
\* with N points, row sums S and d[i] = N * S[i] - sum(S), the comparison
\* mean[i] - global_mean < std_ratio * global_std is
\* d[i] < std_ratio * sqrt(sum(d^2) / N), for std_ratio >= 0.
below_threshold(sums, std_ratio) ==
    [i \in DOMAIN sums |->
        IF \E j \in DOMAIN sums : sums[j] = Inf THEN FALSE
        ELSE LET N == Len(sums)
                 total == SumSeq([j \in DOMAIN sums |-> sums[j].v], 1)
                 d == [j \in DOMAIN sums |-> N * sums[j].v - total]
                 sq == SumSeq([j \in DOMAIN sums |-> d[j] * d[j]], 1)
             IN  d[i] < 0 \/ d[i] * d[i] * N < std_ratio * std_ratio * sq]

\* arr[mask] for a boolean mask: the selected positions, ascending
mask_indices(mask) == Ascending({i \in DOMAIN mask : mask[i]})

\* the arrays remove_outliers returns; raises is the ZeroDivisionError of
\* n_removed / len(points) on an empty array
remove_outliers(pts, cols, nb_neighbors, std_ratio) ==
    LET distances == query(pts, nb_neighbors + 1)
        mask == below_threshold(row_sums(distances), std_ratio)
        kept == mask_indices(mask)
    IN  [points |-> Take(pts, kept),
         colors |-> IF cols # None THEN Some(Take(cols[1], kept)) ELSE None,
         kept |-> kept,
         raises |-> Len(pts) = 0]

----------------------------------------------------------------------------
(* Direct calls of PointCloudLoader.remove_outliers *)

\* collinear points, so that every distance is a whole number
RecP == LasRecord(0, 0, 0, 65535, 0, 0, 2)
RecQ == LasRecord(1, 0, 0, 0, 65535, 0, 2)
RecR == LasRecord(10, 0, 0, 65535, 65535, 65535, 7)

OutlierRecs == {RecP, RecQ, RecR}
NeighborCounts == {1, 2}
StdRatios == {1, 2}

InitOutlier ==
    /\ NoViewer
    /\ fn = "remove_outliers"
    /\ \E recs \in BoundedSeqs(OutlierRecs, MaxOutlierPoints), hasRed \in BOOLEAN :
          /\ las = Container(recs, hasRed, TRUE)
          /\ points = XYZ(las)
          /\ colors = IF hasRed THEN Some(RGB(las)) ELSE None
    /\ \E k \in NeighborCounts, r \in StdRatios :
          args = [NoArgs EXCEPT !.nb_neighbors = Some(k), !.std_ratio = Some(r)]
    /\ cast_mode = "indefinite"
    /\ pc = "call"
    /\ indices = None
    /\ metadata = None
    /\ err = None

RemoveOutliersCall ==
    /\ fn = "remove_outliers"
    /\ pc = "call"
    /\ LET out == remove_outliers(points, colors, args.nb_neighbors[1],
                                  args.std_ratio[1])
       IN  IF out.raises
           THEN /\ err' = Some("ZeroDivisionError")
                /\ pc' = "error"
                /\ UNCHANGED <<points, colors, indices>>
           ELSE /\ points' = out.points
                /\ colors' = out.colors
                /\ indices' = Some(out.kept)
                /\ pc' = "done"
                /\ err' = None
    /\ UNCHANGED <<las, fn, args, cast_mode, metadata>>
    /\ UNCHANGED viewerVars

NextOutlier == RemoveOutliersCall

SpecOutlier == InitOutlier /\ [][NextOutlier]_vars

----------------------------------------------------------------------------
(* Claims about remove_outliers *)

OutlierReturned == fn = "remove_outliers" /\ pc \in {"done", "error"}

\* C3: with N <= nb_neighbors points remove_outliers returns all N points
\* and their colours unchanged and raises nothing; and it never returns
\* more points than it was given.
C3_NoOpWhenFewPoints ==
    OutlierReturned =>
        /\ Len(las.recs) <= args.nb_neighbors[1] =>
              /\ err = None
              /\ points = XYZ(las)
              /\ colors = (IF las.has_red THEN Some(RGB(las)) ELSE None)
        /\ Len(points) <= Len(las.recs)

\* whether point i's mean neighbour distance exceeds T = mu + std_ratio * sigma
\* (every mean distance finite)
ExceedsThreshold(i) ==
    LET sums == row_sums(query(XYZ(las), args.nb_neighbors[1] + 1))
        N == Len(sums)
        total == SumSeq([j \in DOMAIN sums |-> sums[j].v], 1)
        d == [j \in DOMAIN sums |-> N * sums[j].v - total]
        sq == SumSeq([j \in DOMAIN sums |-> d[j] * d[j]], 1)
    IN  d[i] > 0 /\ d[i] * d[i] * N > args.std_ratio[1] * args.std_ratio[1] * sq

\* C6: exactly the points whose mean distance exceeds the one global
\* threshold T are dropped; a point whose mean distance equals T is kept.
C6_DropsOnlyAboveThreshold ==
    (fn = "remove_outliers" /\ pc = "done"
       /\ Len(las.recs) > args.nb_neighbors[1]) =>
        Range(indices[1]) = {i \in DOMAIN las.recs : ~ExceedsThreshold(i)}

----------------------------------------------------------------------------
(* The loads: PointCloudLoader.load, load_las_file, load_urban_las *)

Tenths(r, g, b) == <<Frac(r, 10), Frac(g, 10), Frac(b, 10)>>

\* a palette whose default is the 8-bit gray (128, 128, 128)
CLASSIFICATION_COLORS_bytes(cls) ==
    IF cls = 6 THEN Tenths(9, 1, 1) ELSE <<R(128), R(128), R(128)>>

\* CLASSIFICATION_COLORS.get(cls, (0.5, 0.5, 0.5))
CLASSIFICATION_COLORS(cls) ==
    CASE cls = 0 -> Tenths(5, 5, 5)
      [] cls = 1 -> Tenths(3, 3, 3)
      [] cls = 2 -> Tenths(6, 4, 2)
      [] cls = 3 -> Tenths(2, 6, 2)
      [] cls = 4 -> Tenths(1, 7, 1)
      [] cls = 5 -> Tenths(0, 8, 0)
      [] cls = 6 -> Tenths(9, 1, 1)
      [] cls = 7 -> Tenths(9, 9, 0)
      [] cls = 9 -> Tenths(0, 5, 9)
      [] cls = 10 -> Tenths(5, 0, 9)
      [] cls = 11 -> Tenths(3, 3, 3)
      [] cls = 13 -> Tenths(8, 8, 2)
      [] cls = 14 -> Tenths(9, 5, 0)
      [] cls = 15 -> Tenths(7, 3, 0)
      [] cls = 17 -> Tenths(4, 4, 4)
      [] cls = 18 -> Tenths(0, 8, 8)
      [] OTHER -> Tenths(5, 5, 5)

\* colors[i] = CLASSIFICATION_COLORS.get(cls, ...) for each point
ClassColors(l) ==
    [i \in DOMAIN l.recs |-> CLASSIFICATION_COLORS(l.recs[i].classification)]

\* an extraction that prefers stored colours to classification colours
extract_colors_stored_first(f, l) ==
    IF l.has_red THEN Some(RGB(l))
    ELSE IF f = "load_urban_las" /\ l.has_classification
         THEN Some(ClassColors(l)) ELSE None

\* the keys of the CLASSIFICATION_COLORS dict
EnumeratedCodes == {0, 1, 2, 3, 4, 5, 6, 7, 9, 10, 11, 13, 14, 15, 17, 18}

\* the codes looked up directly: every integer up to MaxCode either way,
\* the largest 8-bit code and a large one
ClassCodes == (-MaxCode..MaxCode) \cup {255, 999}

InitColorizer ==
    /\ NoViewer
    /\ fn = "CLASSIFICATION_COLORS.get"
    /\ \E cls \in ClassCodes :
          las = Container(<<LasRecord(0, 0, 0, 0, 0, 0, cls)>>, FALSE, TRUE)
    /\ args = NoArgs
    /\ cast_mode = "indefinite"
    /\ pc = "call"
    /\ points = XYZ(las)
    /\ colors = None
    /\ indices = None
    /\ metadata = None
    /\ err = None

\* colors[i] = CLASSIFICATION_COLORS.get(cls, (0.5, 0.5, 0.5))
ColorizeCall ==
    /\ fn = "CLASSIFICATION_COLORS.get"
    /\ pc = "call"
    /\ colors' = Some(ClassColors(las))
    /\ pc' = "done"
    /\ UNCHANGED <<las, fn, args, cast_mode, points, indices, metadata, err>>
    /\ UNCHANGED viewerVars

NextColorizer == ColorizeCall

SpecColorizer == InitColorizer /\ [][NextColorizer]_vars

\* the colours each load takes from the container: load reads the colour
\* channels when there are any; load_urban_las reads the classification
\* when there is one, and never the colour channels
extract_colors(f, l) ==
    IF f = "load_urban_las"
    THEN IF l.has_classification THEN Some(ClassColors(l)) ELSE None
    ELSE IF l.has_red THEN Some(RGB(l)) ELSE None

\* a choice that may draw an index twice
random_choice_replace(n, size) == [1..size -> 1..n]

\* np.random.choice(n, size, replace=False): any `size` distinct indices
random_choice(n, size) ==
    {s \in [1..size -> 1..n] : \A a, b \in 1..size : a # b => s[a] # s[b]}

\* (min, max) of column a
AxisBounds(pts, a) ==
    <<SetMin({pts[i][a] : i \in DOMAIN pts}), SetMax({pts[i][a] : i \in DOMAIN pts})>>

\* the metadata dict of load (filename and las_version left out) and of
\* load_urban_las
build_metadata(f, pts, cols) ==
    IF f = "load_urban_las"
    THEN [num_points |-> Len(pts), has_classification |-> cols # None]
    ELSE [num_points |-> Len(pts),
          bounds |-> [x |-> AxisBounds(pts, 1), y |-> AxisBounds(pts, 2),
                      z |-> AxisBounds(pts, 3)],
          has_colors |-> cols # None]

\* defaults of remove_outliers, which load_las_file does not override
DefaultNbNeighbors == 20
DefaultStdRatio == 2

\* points whose pairwise distances are whole (a 3-4-5 triangle)
RecK == LasRecord(0, 0, 0, 65535, 0, 0, 6)
RecL == LasRecord(3, 0, 0, 0, 65535, 0, 999)
RecM == LasRecord(0, -4, 0, 0, 0, 65535, 2)

LoadRecs == {RecK, RecL, RecM}
LoadFns == {"load", "load_las_file", "load_urban_las"}
\* downsample_voxel: None, 0, 4 m, -4 m
LoadVoxels == {None, Some(0), Some(4000), Some(-4000)}
LoadMaxPoints == {None, Some(0), Some(2)}

LoadFiles ==
    {AbsentFile, GarbageFile}
      \cup {Container(recs, hasRed, hasClass) :
              recs \in BoundedSeqs(LoadRecs, MaxLoadPoints),
              hasRed \in BOOLEAN, hasClass \in BOOLEAN}

InitLoad ==
    /\ NoViewer
    /\ fn \in LoadFns
    /\ las \in LoadFiles
    /\ \E v \in LoadVoxels, m \in LoadMaxPoints, ro \in BOOLEAN :
          /\ ro => fn = "load_las_file"
          /\ args = [NoArgs EXCEPT !.downsample_voxel = v, !.max_points = m,
                                   !.remove_outliers = ro]
    \* LoadRecs keep every voxel key within int32: the cast is defined
    /\ cast_mode = "indefinite"
    /\ pc = "start"
    /\ points = <<>>
    /\ colors = None
    /\ indices = None
    /\ metadata = None
    /\ err = None

Raise(e) ==
    /\ err' = Some(e)
    /\ pc' = "error"
    /\ UNCHANGED <<points, colors, indices, metadata>>

\* the path check (load only), laspy.read, the XYZ stack and the printed
\* bounds, whose .min() raises on an empty array
LoadRead ==
    /\ fn \in LoadFns
    /\ pc = "start"
    /\ IF ~las.exists THEN Raise("FileNotFoundError")
       ELSE IF ~las.readable THEN Raise("LaspyException")
       ELSE IF Len(las.recs) = 0 THEN Raise("ValueError")
       ELSE /\ points' = XYZ(las)
            /\ pc' = "read"
            /\ UNCHANGED <<colors, indices, metadata, err>>
    /\ UNCHANGED <<las, fn, args, cast_mode>>
    /\ UNCHANGED viewerVars

LoadColors ==
    /\ fn \in LoadFns
    /\ pc = "read"
    /\ colors' = extract_colors(fn, las)
    /\ pc' = "colored"
    /\ UNCHANGED <<las, fn, args, cast_mode, points, indices, metadata, err>>
    /\ UNCHANGED viewerVars

\* if downsample_voxel: points, colors = voxel_downsample(...)
LoadDownsample ==
    /\ fn \in LoadFns
    /\ pc = "colored"
    /\ IF Truthy(args.downsample_voxel)
       THEN LET out == voxel_downsample(points, colors, args.downsample_voxel[1])
            IN  /\ points' = out.points
                /\ colors' = out.colors
                /\ indices' = Some(out.unique_indices)
       ELSE UNCHANGED <<points, colors, indices>>
    /\ pc' = "downsampled"
    /\ UNCHANGED <<las, fn, args, cast_mode, metadata, err>>
    /\ UNCHANGED viewerVars

\* if max_points and len(points) > max_points: sample
LoadSample ==
    /\ fn \in LoadFns
    /\ pc = "downsampled"
    /\ IF Truthy(args.max_points) /\ Len(points) > args.max_points[1]
       THEN \E idx \in random_choice(Len(points), args.max_points[1]) :
               /\ indices' = Some(idx)
               /\ points' = Take(points, idx)
               /\ colors' = IF colors # None THEN Some(Take(colors[1], idx))
                            ELSE None
       ELSE UNCHANGED <<points, colors, indices>>
    /\ pc' = "sampled"
    /\ UNCHANGED <<las, fn, args, cast_mode, metadata, err>>
    /\ UNCHANGED viewerVars

\* the metadata dict; load and load_urban_las return here
LoadMetadata ==
    /\ fn \in LoadFns
    /\ pc = "sampled"
    /\ metadata' = Some(build_metadata(fn, points, colors))
    /\ pc' = IF fn = "load_las_file" THEN "loaded" ELSE "returned"
    /\ UNCHANGED <<las, fn, args, cast_mode, points, colors, indices, err>>
    /\ UNCHANGED viewerVars

\* load_las_file after loader.load: the optional outlier removal, return
LasFileReturn ==
    /\ fn = "load_las_file"
    /\ pc = "loaded"
    /\ IF args.remove_outliers
       THEN LET out == remove_outliers(points, colors, DefaultNbNeighbors,
                                       DefaultStdRatio)
            IN  /\ points' = out.points
                /\ colors' = out.colors
                /\ indices' = Some(out.kept)
       ELSE UNCHANGED <<points, colors, indices>>
    /\ pc' = "returned"
    /\ UNCHANGED <<las, fn, args, cast_mode, metadata, err>>
    /\ UNCHANGED viewerVars

NextLoad ==
    \/ LoadRead
    \/ LoadColors
    \/ LoadDownsample
    \/ LoadSample
    \/ LoadMetadata
    \/ LasFileReturn

SpecLoad == InitLoad /\ [][NextLoad]_vars

\* every way into the loader: the loads and the direct calls
SpecLoader ==
    (InitLoad \/ InitVoxel \/ InitOutlier)
      /\ [][NextLoad \/ NextVoxel \/ NextOutlier]_vars

----------------------------------------------------------------------------
(* Camera *)

Vec3(x, y, z) == <<R(x), R(y), R(z)>>

\* the spherical-to-Cartesian conversion of update_position, kept as the
\* arguments it is applied to
Spherical(target, distance, azimuth, elevation) ==
    [target |-> target, distance |-> distance, azimuth |-> azimuth,
     elevation |-> elevation]

rotation_speed == <<1, 2>>
zoom_speed == R(2)
pan_speed == <<1, 10>>
MinDistance == R(1)
MaxDistance == R(1000)
MaxElevation == R(89)

update_position(cam) ==
    [cam EXCEPT !.position =
        Spherical(cam.target, cam.distance, cam.azimuth, cam.elevation)]

\* a constructor that starts at the unit distance
NewCameraUnit ==
    update_position(
        [position |-> Vec3(0, 0, 1),
         target |-> [base |-> Vec3(0, 0, 0), pans |-> <<>>],
         distance |-> R(1), azimuth |-> R(45), elevation |-> R(30)])

\* Camera(): position (0, 0, 50), target the origin, so distance is 50
NewCamera ==
    update_position(
        [position |-> Vec3(0, 0, 50),
         target |-> [base |-> Vec3(0, 0, 0), pans |-> <<>>],
         distance |-> R(50), azimuth |-> R(45), elevation |-> R(30)])

\* a rotation that leaves the elevation unclamped
rotate_unclamped(cam, delta_azimuth, delta_elevation) ==
    update_position(
        [cam EXCEPT
            !.azimuth = RAdd(@, RMul(R(delta_azimuth), rotation_speed)),
            !.elevation = RAdd(@, RMul(R(delta_elevation), rotation_speed))])

rotate(cam, delta_azimuth, delta_elevation) ==
    update_position(
        [cam EXCEPT
            !.azimuth = RAdd(@, RMul(R(delta_azimuth), rotation_speed)),
            !.elevation = RClip(RAdd(@, RMul(R(delta_elevation), rotation_speed)),
                                RSub(R(0), MaxElevation), MaxElevation)])

\* distance *= 1 - delta * zoom_speed * 0.1, then the clamp
zoom(cam, delta) ==
    update_position(
        [cam EXCEPT
            !.distance =
                RMax(MinDistance,
                     RMin(RMul(@, RSub(R(1), RMul(RMul(R(delta), zoom_speed),
                                                  <<1, 10>>))),
                          MaxDistance))])

\* target += move; the move is built from the stored position, the target
\* and the distance, and is kept as those and the deltas
pan(cam, delta_x, delta_y) ==
    update_position(
        [cam EXCEPT
            !.target.pans =
                Append(@, [delta_x |-> delta_x, delta_y |-> delta_y,
                           position |-> cam.position,
                           distance |-> cam.distance])])

----------------------------------------------------------------------------
(* Direct calls of Camera.rotate *)

\* cursor deltas in pixels, small and large, odd and even
RotateDeltas == {-300, -7, 0, 10, 300}

InitCamera ==
    /\ fn = "Camera.rotate"
    /\ las = AbsentFile
    /\ args = NoArgs
    /\ cast_mode = "indefinite"
    /\ pc = "call"
    /\ points = <<>>
    /\ colors = None
    /\ indices = None
    /\ metadata = None
    /\ err = None
    /\ camera = NewCamera
    /\ scene = None
    /\ mouse_pressed = FALSE
    /\ mouse_button = None
    /\ last_mouse = <<0, 0>>
    /\ cursor = <<0, 0>>
    /\ point_size = R(2)
    /\ should_close = FALSE
    /\ window_size = <<1920, 1080>>
    /\ transforms = None
    /\ events = 0
    /\ main_pc = "none"
    /\ window = "none"
    /\ polls = 0
    /\ frames = 0
    /\ signal_at = None
    /\ called = <<>>

\* camera.rotate(delta_azimuth, delta_elevation)
RotateCall(delta_azimuth, delta_elevation) ==
    /\ fn = "Camera.rotate"
    /\ events < MaxRotations
    /\ events' = events + 1
    /\ camera' = rotate(camera, delta_azimuth, delta_elevation)
    /\ called' = <<[op |-> "rotate", a |-> delta_azimuth, b |-> delta_elevation]>>
    /\ UNCHANGED <<loaderVars, scene, controlVars, cursor, point_size,
                   should_close, window_size, transforms, loopVars, signal_at>>

NextCamera == \E da \in RotateDeltas, de \in RotateDeltas : RotateCall(da, de)

SpecCamera == InitCamera /\ [][NextCamera]_vars

----------------------------------------------------------------------------
(* PointCloudRenderer *)

RECURSIVE RSum(_, _)
RSum(s, n) == IF n > Len(s) THEN R(0) ELSE RAdd(s[n], RSum(s, n + 1))

\* points.mean(axis=0)
Center(pts) ==
    [a \in 1..3 |->
        RDiv(RSum([i \in DOMAIN pts |-> R(pts[i][a])], 1), R(Len(pts)))]

\* np.max(points.max(axis=0) - points.min(axis=0))
MaxDim(pts) ==
    SetMax({AxisBounds(pts, a)[2] - AxisBounds(pts, a)[1] : a \in 1..3})

\* height_colormap(points[:, 2])
height_colormap(heights) ==
    LET h_min == SetMin(Range(heights))
        h_max == SetMax(Range(heights))
        normalized ==
            [i \in DOMAIN heights |->
                IF h_max > h_min
                THEN Frac(heights[i] - h_min, h_max - h_min) ELSE R(0)]
    IN  [i \in DOMAIN heights |->
            <<RClip(RSub(RMul(<<3, 2>>, normalized[i]), <<1, 2>>), R(0), R(1)),
              RClip(RAdd(RMul(R(-2), RAbs(RSub(normalized[i], <<1, 2>>))), R(1)),
                    R(0), R(1)),
              RClip(RSub(RMul(<<3, 2>>, RSub(R(1), normalized[i])), <<1, 2>>),
                    R(0), R(1))>>]

\* a load_points that moves the camera and leaves its position as it was
fit_camera_stale(cam, pts) ==
    [cam EXCEPT !.target = [base |-> Center(pts), pans |-> <<>>],
                !.distance = RMul(R(MaxDim(pts)), <<3, 2>>)]

\* the camera after load_points: centred on the cloud, at 1.5 times its
\* largest extent
fit_camera(cam, pts) ==
    update_position(
        [cam EXCEPT !.target = [base |-> Center(pts), pans |-> <<>>],
                    !.distance = RMul(R(MaxDim(pts)), <<3, 2>>)])

MOUSE_BUTTON_LEFT == 0
MOUSE_BUTTON_RIGHT == 1
MOUSE_BUTTON_MIDDLE == 2
Buttons == {MOUSE_BUTTON_LEFT, MOUSE_BUTTON_RIGHT, MOUSE_BUTTON_MIDDLE}
ButtonActions == {"PRESS", "RELEASE"}
KeyActions == {"PRESS", "REPEAT", "RELEASE"}
Keys == {"ESCAPE", "W", "S", "EQUAL", "KP_ADD", "MINUS", "KP_SUBTRACT", "R", "A"}
CursorPositions == {<<100, 100>>, <<110, 90>>}
ScrollOffsets == {-1, 1, 6}

\* the files main is started on: a single point, a small coloured triangle,
\* two points five kilometres apart, a container without points, and the
\* absent and the unreadable file
SinglePoint == Container(<<RecK>>, FALSE, FALSE)
Triangle == Container(<<RecK, RecL, RecM>>, TRUE, FALSE)
Wide == Container(<<RecK, LasRecord(3000, 0, 4000, 0, 0, 0, 2)>>, FALSE, FALSE)
EmptyCloud == Container(<<>>, FALSE, FALSE)
ViewClouds == {SinglePoint, Triangle, Wide}
MainFiles == ViewClouds \cup {EmptyCloud, AbsentFile, GarbageFile}

\* --max-points, --downsample (None with --no-downsample), --point-size
DefaultMaxPoints == 5000000
MainVoxels == {None, Some(4000)}
PointSizes == {R(2), R(20)}

\* args = parser.parse_args(), as main hands them on
MainArgs(v, ro, ps) ==
    [voxel_size |-> None, max_points |-> Some(DefaultMaxPoints),
     downsample_voxel |-> v, remove_outliers |-> ro, nb_neighbors |-> None,
     std_ratio |-> None, point_size |-> ps]

\* main() entered, the arguments parsed
Init ==
    /\ fn = "main"
    /\ las \in MainFiles
    /\ \E v \in MainVoxels, ro \in BOOLEAN, ps \in PointSizes :
          /\ ro => las = Triangle
          /\ args = MainArgs(v, ro, ps)
    /\ cast_mode = "indefinite"
    /\ pc = "not_called"
    /\ points = <<>>
    /\ colors = None
    /\ indices = None
    /\ metadata = None
    /\ err = None
    /\ camera = None
    /\ scene = None
    /\ mouse_pressed = FALSE
    /\ mouse_button = None
    /\ last_mouse = <<0, 0>>
    /\ cursor = <<100, 100>>
    /\ point_size = R(2)
    /\ should_close = FALSE
    /\ window_size = <<1920, 1080>>
    /\ transforms = None
    /\ events = 0
    /\ main_pc = "check"
    /\ window = "none"
    /\ polls = 0
    /\ frames = 0
    /\ signal_at = None
    /\ called = <<>>

\* if not filepath.exists(): sys.exit(1); otherwise the call of
\* load_las_file
MainCheck ==
    /\ fn = "main"
    /\ main_pc = "check"
    /\ IF ~las.exists
       THEN /\ main_pc' = "exited"
            /\ UNCHANGED <<fn, pc>>
       ELSE /\ main_pc' = "load"
            /\ fn' = "load_las_file"
            /\ pc' = "start"
    /\ UNCHANGED <<dataVars, points, colors, err, camera, scene, controlVars,
                   cursor, point_size, should_close, window_size, transforms, events,
                   window, polls, frames, signal_at, called>>

\* a main that goes on to the renderer whatever the load did
after_load_ignored(e) == "create"

\* where main goes when load_las_file has returned or raised:
\* except Exception: sys.exit(1)
after_load(e) == IF e # None THEN "exited" ELSE "create"

MainLoaded ==
    /\ fn = "load_las_file"
    /\ main_pc = "load"
    /\ pc \in {"returned", "error"}
    /\ fn' = "main"
    /\ main_pc' = after_load(err)
    /\ UNCHANGED <<dataVars, pc, points, colors, err, camera, scene,
                   controlVars, cursor, point_size, should_close, window_size, transforms,
                   events, window, polls, frames, signal_at, called>>

\* renderer = PointCloudRenderer(...); renderer.point_size = args.point_size.
\* glfw.init or glfw.create_window may fail, and main then exits
CreateRenderer ==
    /\ fn = "main"
    /\ main_pc = "create"
    /\ \E ok \in BOOLEAN :
          IF ok
          THEN /\ window' = "open"
               /\ camera' = NewCamera
               /\ mouse_pressed' = FALSE
               /\ mouse_button' = None
               /\ last_mouse' = <<0, 0>>
               /\ point_size' = args.point_size
               /\ main_pc' = "load_points"
          ELSE /\ main_pc' = "exited"
               /\ UNCHANGED <<window, camera, controlVars, point_size>>
    /\ UNCHANGED <<loaderVars, scene, cursor, should_close, window_size, transforms,
                   events, polls, frames, signal_at, called>>

\* renderer.load_points(points, colors); the reductions of an empty array
\* raise ValueError, which main does not catch
LoadPoints ==
    /\ fn = "main"
    /\ main_pc = "load_points"
    /\ IF Len(points) = 0
       THEN /\ err' = Some("ValueError")
            /\ main_pc' = "crashed"
            /\ UNCHANGED <<scene, camera>>
       ELSE /\ scene' =
                  Some([points |-> points,
                        colors |-> IF colors = None
                                   THEN height_colormap([i \in DOMAIN points |->
                                                            points[i][3]])
                                   ELSE colors[1]])
            /\ camera' = fit_camera(camera, points)
            /\ main_pc' = "loop_top"
            /\ UNCHANGED err
    /\ UNCHANGED <<dataVars, fn, pc, points, colors, controlVars, cursor,
                   point_size, should_close, window_size, transforms, events, window,
                   polls, frames, signal_at, called>>

\* a loop that polls once more before it looks at the close flag
LoopTestAfterPoll ==
    /\ fn = "main"
    /\ main_pc = "loop_top"
    /\ IF should_close /\ (polls >= MaxFrames \/ signal_at[1][1] < polls)
       THEN /\ window' = "terminated"
            /\ main_pc' = "done"
            /\ UNCHANGED polls
       ELSE /\ polls < MaxFrames
            /\ polls' = polls + 1
            /\ main_pc' = "polling"
            /\ UNCHANGED window
    /\ UNCHANGED <<loaderVars, camera, scene, controlVars, cursor, point_size,
                   should_close, window_size, transforms, events, frames, signal_at,
                   called>>

\* while not glfw.window_should_close(window): glfw.poll_events() is
\* entered, or the loop ends with glfw.terminate()
LoopTest ==
    /\ fn = "main"
    /\ main_pc = "loop_top"
    /\ IF should_close
       THEN /\ window' = "terminated"
            /\ main_pc' = "done"
            /\ UNCHANGED polls
       ELSE /\ polls < MaxFrames
            /\ polls' = polls + 1
            /\ main_pc' = "polling"
            /\ UNCHANGED window
    /\ UNCHANGED <<loaderVars, camera, scene, controlVars, cursor, point_size,
                   should_close, window_size, transforms, events, frames, signal_at,
                   called>>

\* a window system that runs callbacks while the frame is rendered too
PollingOrRendering ==
    fn = "main" /\ main_pc \in {"polling", "rendering"} /\ events < MaxEvents

\* an input event reaches its callback inside glfw.poll_events()
Polling == fn = "main" /\ main_pc = "polling" /\ events < MaxEvents

\* the close flag is set, and the moment of the first setting remembered
SetShouldClose ==
    /\ should_close' = TRUE
    /\ signal_at' = IF signal_at = None THEN Some(<<polls, frames>>)
                    ELSE signal_at

Call(op, a, b) == [op |-> op, a |-> a, b |-> b]

\* a handler that goes Idle only when the dragging button is released
mouse_button_callback_held(button, action) ==
    /\ Polling
    /\ events' = events + 1
    /\ IF action = "PRESS"
       THEN /\ mouse_pressed' = TRUE
            /\ mouse_button' = Some(button)
            /\ last_mouse' = cursor
       ELSE IF mouse_button = Some(button)
            THEN /\ mouse_pressed' = FALSE
                 /\ mouse_button' = None
                 /\ UNCHANGED last_mouse
            ELSE UNCHANGED <<mouse_pressed, mouse_button, last_mouse>>
    /\ called' = <<>>
    /\ UNCHANGED <<loaderVars, camera, scene, cursor, point_size, should_close,
                   window_size, transforms, loopVars, signal_at>>

mouse_button_callback(button, action) ==
    /\ Polling
    /\ events' = events + 1
    /\ IF action = "PRESS"
       THEN /\ mouse_pressed' = TRUE
            /\ mouse_button' = Some(button)
            /\ last_mouse' = cursor
       ELSE /\ mouse_pressed' = FALSE
            /\ mouse_button' = None
            /\ UNCHANGED last_mouse
    /\ called' = <<>>
    /\ UNCHANGED <<loaderVars, camera, scene, cursor, point_size, should_close,
                   window_size, transforms, loopVars, signal_at>>

\* a handler that hands the vertical cursor delta to rotate unflipped
mouse_move_callback_unflipped(xpos, ypos) ==
    /\ Polling
    /\ <<xpos, ypos>> # cursor
    /\ events' = events + 1
    /\ cursor' = <<xpos, ypos>>
    /\ IF mouse_pressed
       THEN LET dx == xpos - last_mouse[1]
                dy == ypos - last_mouse[2]
            IN  /\ IF mouse_button = Some(MOUSE_BUTTON_LEFT)
                   THEN /\ camera' = rotate(camera, dx, dy)
                        /\ called' = <<Call("rotate", dx, dy)>>
                   ELSE IF mouse_button = Some(MOUSE_BUTTON_RIGHT)
                        THEN /\ camera' = pan(camera, -dx, dy)
                             /\ called' = <<Call("pan", -dx, dy)>>
                        ELSE /\ camera' = camera
                             /\ called' = <<>>
                /\ last_mouse' = <<xpos, ypos>>
       ELSE /\ called' = <<>>
            /\ UNCHANGED <<camera, last_mouse>>
    /\ UNCHANGED <<loaderVars, scene, mouse_pressed, mouse_button, point_size,
                   should_close, window_size, transforms, loopVars, signal_at>>

\* a handler that captures the cursor position whether a button is held
\* or not
mouse_move_callback_tracking(xpos, ypos) ==
    /\ Polling
    /\ <<xpos, ypos>> # cursor
    /\ events' = events + 1
    /\ cursor' = <<xpos, ypos>>
    /\ IF mouse_pressed
       THEN LET dx == xpos - last_mouse[1]
                dy == ypos - last_mouse[2]
            IN  IF mouse_button = Some(MOUSE_BUTTON_LEFT)
                THEN /\ camera' = rotate(camera, dx, -dy)
                     /\ called' = <<Call("rotate", dx, -dy)>>
                ELSE IF mouse_button = Some(MOUSE_BUTTON_RIGHT)
                     THEN /\ camera' = pan(camera, -dx, dy)
                          /\ called' = <<Call("pan", -dx, dy)>>
                     ELSE /\ camera' = camera
                          /\ called' = <<>>
       ELSE /\ called' = <<>>
            /\ UNCHANGED camera
    /\ last_mouse' = <<xpos, ypos>>
    /\ UNCHANGED <<loaderVars, scene, mouse_pressed, mouse_button, point_size,
                   should_close, window_size, transforms, loopVars, signal_at>>

mouse_move_callback(xpos, ypos) ==
    /\ Polling
    /\ <<xpos, ypos>> # cursor
    /\ events' = events + 1
    /\ cursor' = <<xpos, ypos>>
    /\ IF mouse_pressed
       THEN LET dx == xpos - last_mouse[1]
                dy == ypos - last_mouse[2]
            IN  /\ IF mouse_button = Some(MOUSE_BUTTON_LEFT)
                   THEN /\ camera' = rotate(camera, dx, -dy)
                        /\ called' = <<Call("rotate", dx, -dy)>>
                   ELSE IF mouse_button = Some(MOUSE_BUTTON_RIGHT)
                        THEN /\ camera' = pan(camera, -dx, dy)
                             /\ called' = <<Call("pan", -dx, dy)>>
                        ELSE /\ camera' = camera
                             /\ called' = <<>>
                /\ last_mouse' = <<xpos, ypos>>
       ELSE /\ called' = <<>>
            /\ UNCHANGED <<camera, last_mouse>>
    /\ UNCHANGED <<loaderVars, scene, mouse_pressed, mouse_button, point_size,
                   should_close, window_size, transforms, loopVars, signal_at>>

\* a handler that zooms by the scroll offset itself
scroll_callback_unflipped(yoffset) ==
    /\ Polling
    /\ events' = events + 1
    /\ camera' = zoom(camera, yoffset)
    /\ called' = <<Call("zoom", yoffset, 0)>>
    /\ UNCHANGED <<loaderVars, scene, controlVars, cursor, point_size,
                   should_close, window_size, transforms, loopVars, signal_at>>

scroll_callback(yoffset) ==
    /\ Polling
    /\ events' = events + 1
    /\ camera' = zoom(camera, -yoffset)
    /\ called' = <<Call("zoom", -yoffset, 0)>>
    /\ UNCHANGED <<loaderVars, scene, controlVars, cursor, point_size,
                   should_close, window_size, transforms, loopVars, signal_at>>

key_callback(key, action) ==
    /\ Polling
    /\ events' = events + 1
    /\ IF action \in {"PRESS", "REPEAT"}
       THEN CASE key = "ESCAPE" ->
                  /\ SetShouldClose
                  /\ called' = <<>>
                  /\ UNCHANGED <<camera, point_size>>
              [] key = "W" ->
                  /\ camera' = zoom(camera, 1)
                  /\ called' = <<Call("zoom", 1, 0)>>
                  /\ UNCHANGED <<should_close, signal_at, point_size>>
              [] key = "S" ->
                  /\ camera' = zoom(camera, -1)
                  /\ called' = <<Call("zoom", -1, 0)>>
                  /\ UNCHANGED <<should_close, signal_at, point_size>>
              [] key \in {"EQUAL", "KP_ADD"} ->
                  /\ point_size' = RMin(RAdd(point_size, <<1, 2>>), R(10))
                  /\ called' = <<>>
                  /\ UNCHANGED <<camera, should_close, signal_at>>
              [] key \in {"MINUS", "KP_SUBTRACT"} ->
                  /\ point_size' = RMax(RSub(point_size, <<1, 2>>), R(1))
                  /\ called' = <<>>
                  /\ UNCHANGED <<camera, should_close, signal_at>>
              [] key = "R" ->
                  /\ camera' = NewCamera
                  /\ called' = <<Call("Camera", 0, 0)>>
                  /\ UNCHANGED <<should_close, signal_at, point_size>>
              [] OTHER ->
                  /\ called' = <<>>
                  /\ UNCHANGED <<camera, should_close, signal_at, point_size>>
       ELSE /\ called' = <<>>
            /\ UNCHANGED <<camera, should_close, signal_at, point_size>>
    /\ UNCHANGED <<loaderVars, scene, controlVars, cursor, window_size, transforms,
                   loopVars>>

\* the user closes the window: GLFW sets the close flag while it polls
WindowClose ==
    /\ Polling
    /\ events' = events + 1
    /\ SetShouldClose
    /\ called' = <<>>
    /\ UNCHANGED <<loaderVars, camera, scene, controlVars, cursor, point_size,
                   window_size, transforms, loopVars>>

\* the sizes the window system delivers with a resize: another size, and
\* the empty framebuffer of a minimized window
ResizeSizes == {<<1280, 720>>, <<0, 0>>}

\* self.width = width; self.height = height; glViewport(0, 0, width, height)
resize_callback(width, height) ==
    /\ Polling
    /\ events' = events + 1
    /\ window_size' = <<width, height>>
    /\ called' = <<>>
    /\ UNCHANGED <<loaderVars, camera, scene, controlVars, cursor, point_size,
                   should_close, transforms, loopVars, signal_at>>

\* what setup_projection and setup_modelview load: the perspective of the
\* aspect ratio width / height, and the look-at view of the camera
Transforms(size, cam) ==
    [aspect |-> Frac(size[1], size[2]),
     eye    |-> cam.position,
     center |-> cam.target]

\* glfw.poll_events() returns and self.render() begins: glClear,
\* setup_projection, setup_modelview. The division width / height raises
\* ZeroDivisionError for height 0; run() lets it pass and main answers
\* any exception of run() with sys.exit(1)
SetupTransforms ==
    /\ fn = "main"
    /\ main_pc = "polling"
    /\ IF window_size[2] = 0
       THEN /\ err' = Some("ZeroDivisionError")
            /\ main_pc' = "exited"
            /\ UNCHANGED transforms
       ELSE /\ transforms' = Some(Transforms(window_size, camera))
            /\ main_pc' = "rendering"
            /\ UNCHANGED err
    /\ UNCHANGED <<dataVars, fn, pc, points, colors, camera, scene,
                   controlVars, cursor, point_size, should_close, window_size,
                   events, window, polls, frames, signal_at, called>>

\* render() goes on under the transforms loaded: render_axes,
\* render_points, and glfw.swap_buffers presents the frame
Render ==
    /\ fn = "main"
    /\ main_pc = "rendering"
    /\ frames' = frames + 1
    /\ transforms' = None
    /\ main_pc' = "loop_top"
    /\ UNCHANGED <<loaderVars, camera, scene, controlVars, cursor, point_size,
                   should_close, window_size, events, window, polls,
                   signal_at, called>>

Next ==
    \/ MainCheck
    \/ NextLoad
    \/ MainLoaded
    \/ CreateRenderer
    \/ LoadPoints
    \/ LoopTest
    \/ \E b \in Buttons, a \in ButtonActions : mouse_button_callback(b, a)
    \/ \E p \in CursorPositions : mouse_move_callback(p[1], p[2])
    \/ \E y \in ScrollOffsets : scroll_callback(y)
    \/ \E k \in Keys, a \in KeyActions : key_callback(k, a)
    \/ \E sz \in ResizeSizes : resize_callback(sz[1], sz[2])
    \/ WindowClose
    \/ SetupTransforms
    \/ Render

Spec == Init /\ [][Next]_vars

\* main started on the single-point file with the default arguments; the
\* loop is sequential code: poll_events returns, render returns, and the
\* while test is reached again
InitSingle ==
    /\ Init
    /\ las = SinglePoint
    /\ args = MainArgs(None, FALSE, R(2))

SpecLoop ==
    /\ InitSingle
    /\ [][Next]_vars
    /\ WF_vars(SetupTransforms)
    /\ WF_vars(Render)
    /\ WF_vars(LoopTest)

----------------------------------------------------------------------------
(* Claims about voxel_downsample *)

\* the mathematical voxel key of a point: floor(coordinate / voxel_size)
MathKey(p, voxel_size) == [a \in 1..3 |-> FloorKey(p[a], voxel_size)]

VoxelDone == fn = "voxel_downsample" /\ pc = "done"

\* the input of the call that VoxelDone reports on
VoxelInput == XYZ(las)

\* the lowest input index among the points that share point i's key
FirstOfKey(i) ==
    SetMin({j \in DOMAIN VoxelInput :
               MathKey(VoxelInput[j], args.voxel_size[1])
                 = MathKey(VoxelInput[i], args.voxel_size[1])})

\* C1: with voxel_size > 0 the retained points are, for every distinct key
\* floor(coordinate / voxel_size) of the input, exactly the point with the
\* lowest original index among those that share the key.
C1_FirstSeenPerMathKey ==
    (VoxelDone /\ args.voxel_size[1] > 0) =>
        /\ Range(indices[1]) = {FirstOfKey(i) : i \in DOMAIN VoxelInput}
        /\ Len(indices[1]) = Cardinality(Range(indices[1]))
        /\ points = Take(VoxelInput, indices[1])

\* C2: the retained points appear in the order in which their voxels were
\* first seen, that is by ascending original index.
C2_FirstSeenOrder ==
    (VoxelDone /\ args.voxel_size[1] > 0) =>
        \A a, b \in DOMAIN indices[1] : a < b => indices[1][a] < indices[1][b]

\* C2 (amended): the retained points appear in strictly ascending
\* lexicographic order of their int32 voxel keys (x, then y, then z).
C2_SortedByKey ==
    (VoxelDone /\ args.voxel_size[1] > 0) =>
        LET keys == voxel_indices(points, args.voxel_size[1])
        IN  \A a, b \in DOMAIN keys : a < b => LexLess(keys[a], keys[b])

\* a call that kept two points whose key order is not their input order
C2_Witness ==
    /\ VoxelDone /\ args.voxel_size[1] > 0
    /\ Len(points) >= 2
    /\ indices[1][1] > indices[1][2]

----------------------------------------------------------------------------
(* Claims about the loads *)

Loading == fn \in LoadFns

\* the arrays a load holds before its reduction step
PointsRead == XYZ(las)
ColorsRead == extract_colors(fn, las)

\* the arrays a load holds after its reduction step, before sampling
Reduced ==
    IF Truthy(args.downsample_voxel)
    THEN voxel_downsample(PointsRead, ColorsRead, args.downsample_voxel[1])
    ELSE [points |-> PointsRead, colors |-> ColorsRead, unique_indices |-> <<>>]

\* C4: a load with a voxel size that is zero or negative leaves the point
\* and colour arrays exactly as they were before the reduction step.
C4_NonPositiveVoxelDisables ==
    (Loading /\ pc = "downsampled" /\ args.downsample_voxel # None
       /\ args.downsample_voxel[1] <= 0) =>
        /\ points = PointsRead
        /\ colors = ColorsRead

\* C5: the metadata a load returns describes the arrays returned with it:
\* num_points is their length and the bounds are their per-axis min/max.
C5_MetadataDescribesResult ==
    (Loading /\ pc = "returned") =>
        /\ metadata[1].num_points = Len(points)
        /\ (fn # "load_urban_las" /\ Len(points) > 0) =>
              metadata[1].bounds =
                  [x |-> AxisBounds(points, 1), y |-> AxisBounds(points, 2),
                   z |-> AxisBounds(points, 3)]

\* the colour array that entered the reductions
ColorsBefore ==
    IF Loading THEN ColorsRead
    ELSE IF las.has_red THEN Some(RGB(las)) ELSE None

Reducing ==
    \/ Loading /\ pc \in {"colored", "downsampled", "sampled", "loaded", "returned"}
    \/ fn \in {"voxel_downsample", "remove_outliers"} /\ pc = "done"

\* C7: after every reduction or sampling the colour array is present iff it
\* was before, is as long as the positions, and position i holds an original
\* point together with that point's original colour.
C7_ParallelArrays ==
    Reducing =>
        /\ (colors = None) <=> (ColorsBefore = None)
        /\ colors # None => Len(colors[1]) = Len(points)
        /\ \A i \in DOMAIN points :
              \E j \in DOMAIN las.recs :
                 /\ points[i] = XYZ(las)[j]
                 /\ colors # None => colors[1][i] = ColorsBefore[1][j]

\* a load of three coloured points whose dedup dropped one and put the
\* last point first
C7_Witness ==
    /\ Loading /\ pc = "returned" /\ colors # None
    /\ Truthy(args.downsample_voxel)
    /\ Len(las.recs) = 3 /\ Len(points) = 2
    /\ points[1] = XYZ(las)[3]

Sampled == Loading /\ pc = "sampled"

ExactSample ==
    /\ Len(points) = args.max_points[1]
    /\ indices # None
    /\ Len(indices[1]) = args.max_points[1]
    /\ \A a, b \in DOMAIN indices[1] : a # b => indices[1][a] # indices[1][b]
    /\ points = Take(Reduced.points, indices[1])

HasBoth == las.exists /\ las.readable /\ las.has_red /\ las.has_classification

Colored ==
    Loading /\ pc \in {"colored", "downsampled", "sampled", "loaded", "returned"}

\* every colour held is the stored colour of the point it belongs to
StoredColorsKept ==
    /\ colors # None
    /\ \A i \in DOMAIN points :
          \E j \in DOMAIN las.recs :
             points[i] = XYZ(las)[j] /\ colors[1][i] = RGB(las)[j]

\* every colour held is the classification colour of its point
ClassColorsKept ==
    /\ colors # None
    /\ \A i \in DOMAIN points :
          \E j \in DOMAIN las.recs :
             points[i] = XYZ(las)[j] /\ colors[1][i] = ClassColors(las)[j]

\* C9: when the container has both stored colours and classification codes
\* the load returns the stored colours.
C9_StoredColorsWin ==
    (Colored /\ HasBoth) => StoredColorsKept

\* C9 (amended): load and load_las_file return the stored colours whenever
\* the container has colour channels and no colours otherwise, whatever the
\* classification; load_urban_las returns the classification colours
\* whenever the container has classification codes, also when it stores
\* colours, and no colours otherwise.
C9_ColorsPerLoader ==
    Colored =>
        IF fn = "load_urban_las"
        THEN IF las.has_classification THEN ClassColorsKept ELSE colors = None
        ELSE IF las.has_red THEN StoredColorsKept ELSE colors = None

\* load_urban_las returned classification colours for a container that
\* stores colours too
C9_Witness ==
    /\ fn = "load_urban_las" /\ pc = "returned" /\ HasBoth
    /\ Len(points) >= 2
    /\ ClassColorsKept /\ ~StoredColorsKept

----------------------------------------------------------------------------
(* Claims about the camera *)

\* C10: in every state of the viewer the camera distance lies within the
\* clamp [1.0, 1000.0].
C10_DistanceClamped ==
    camera # None =>
        /\ RLeq(MinDistance, camera.distance)
        /\ RLeq(camera.distance, MaxDistance)

----------------------------------------------------------------------------
(* Claims about main and the render loop *)

LoadFailed == ~las.exists \/ ~las.readable \/ pc = "error"
InLoop == main_pc \in {"loop_top", "polling", "rendering", "done"}

\* C17: the window is created and the render loop entered only after
\* load_las_file has returned, and after a failed load (absent or
\* unreadable file, or any exception of the load) main exits without
\* creating the window or polling or rendering.
C17_FailedLoadAbortsStartup ==
    /\ (window # "none" \/ InLoop) => pc = "returned"
    /\ LoadFailed =>
          /\ window = "none"
          /\ camera = None
          /\ polls = 0
          /\ frames = 0
          /\ main_pc \in {"check", "load", "exited"}

C17_Witness ==
    /\ main_pc = "exited"
    /\ pc = "error"
    /\ err = Some("LaspyException")
    /\ window = "none"

----------------------------------------------------------------------------
(* Claims about the input callbacks *)

Idle == ~mouse_pressed /\ mouse_button = None
Dragging(button) == mouse_pressed /\ mouse_button = Some(button)
\* this step delivers one input event to its callback
EventStep == events' = events + 1
\* this step is mouse_move_callback
MoveStep == EventStep /\ cursor' # cursor
\* the last callback was key_callback with the reset key
JustReset == called = <<Call("Camera", 0, 0)>>

\* C11: the reset key leaves the controller Idle, and a cursor move that
\* follows the reset directly (no button pressed in between) calls neither
\* rotate nor pan and leaves the camera as the reset made it.
C11_ResetAbandonsDrag ==
    [][/\ (EventStep /\ called' = <<Call("Camera", 0, 0)>>) =>
             ~mouse_pressed' /\ mouse_button' = None
       /\ (JustReset /\ MoveStep) => called' = <<>> /\ camera' = camera]_vars

\* C12: every button press puts the controller in Dragging(that button)
\* with the cursor position captured, every button release puts it in
\* Idle, from whichever state; no other state is ever entered.
C12_DragStateMachine ==
    [][/\ \A b \in Buttons :
             /\ mouse_button_callback(b, "PRESS") =>
                   /\ mouse_pressed' /\ mouse_button' = Some(b)
                   /\ last_mouse' = cursor
             /\ mouse_button_callback(b, "RELEASE") =>
                   ~mouse_pressed' /\ mouse_button' = None
       /\ \/ ~mouse_pressed' /\ mouse_button' = None
          \/ \E b \in Buttons : mouse_pressed' /\ mouse_button' = Some(b)]_vars

\* the cursor moved, a button was pressed there and released: Idle, the
\* position of the press still captured
C12_Witness ==
    /\ Idle
    /\ last_mouse = <<110, 90>>
    /\ events = 3
    /\ called = <<>>
    /\ main_pc = "polling"

\* C13: a cursor move to p while Dragging(left) calls rotate(dx, -dy) once
\* and nothing else, while Dragging(right) it calls pan(-dx, dy) once and
\* nothing else, (dx, dy) being the move from the captured position; the
\* captured position becomes p.
C13_MoveCallsOneOperation ==
    [][\A p \in CursorPositions :
          mouse_move_callback(p[1], p[2]) =>
              LET dx == p[1] - last_mouse[1]
                  dy == p[2] - last_mouse[2]
              IN  /\ Dragging(MOUSE_BUTTON_LEFT) =>
                        /\ called' = <<Call("rotate", dx, -dy)>>
                        /\ camera' = rotate(camera, dx, -dy)
                        /\ camera'.target = camera.target
                        /\ last_mouse' = p
                  /\ Dragging(MOUSE_BUTTON_RIGHT) =>
                        /\ called' = <<Call("pan", -dx, dy)>>
                        /\ camera' = pan(camera, -dx, dy)
                        /\ camera'.azimuth = camera.azimuth
                        /\ camera'.elevation = camera.elevation
                        /\ last_mouse' = p]_vars

\* press-left at (100, 100), move to (110, 90), release: rotate(10, 10)
\* has turned the camera from (45, 30) to (50, 35) and the controller is
\* Idle
C13_Witness ==
    /\ Idle
    /\ events = 3
    /\ cursor = <<110, 90>>
    /\ last_mouse = <<110, 90>>
    /\ camera # None
    /\ camera.azimuth = R(50)
    /\ camera.elevation = R(35)

----------------------------------------------------------------------------
(* Claims about Camera.rotate *)

Rotating == fn = "Camera.rotate"

\* C14 as stated: after any rotate calls the elevation lies strictly
\* between -89 and 89 degrees.
C14_ElevationOpen ==
    Rotating =>
        /\ RLess(RSub(R(0), MaxElevation), camera.elevation)
        /\ RLess(camera.elevation, MaxElevation)

\* C14: every rotate call adds delta_azimuth * rotation_speed to the
\* azimuth, unclamped, and leaves the elevation at the old elevation plus
\* delta_elevation * rotation_speed cut to the closed interval [-89, 89].
C14_ElevationClosed ==
    [][\A da \in RotateDeltas, de \in RotateDeltas :
          RotateCall(da, de) =>
              /\ camera'.azimuth = RAdd(camera.azimuth, RMul(R(da), <<1, 2>>))
              /\ RLeq(R(-89), camera'.elevation)
              /\ RLeq(camera'.elevation, R(89))
              /\ LET e == RAdd(camera.elevation, RMul(R(de), <<1, 2>>))
                 IN  camera'.elevation =
                         IF RLess(R(89), e) THEN R(89)
                         ELSE IF RLess(e, R(-89)) THEN R(-89) ELSE e]_vars

\* three rotations by (300, 300): the elevation sits on the bound 89 and
\* the azimuth has run past a full turn to 495
C14_Witness ==
    /\ Rotating
    /\ events = 3
    /\ camera.elevation = R(89)
    /\ camera.azimuth = R(495)

----------------------------------------------------------------------------
(* Claims about the point size *)

\* C15: from the creation of the renderer on, the point size lies within
\* [1.0, 10.0], whatever --point-size was given and whatever keys were
\* pressed.
C15_PointSizeClamped ==
    window # "none" => RLeq(R(1), point_size) /\ RLeq(point_size, R(10))

----------------------------------------------------------------------------
(* Claims about the empty buffer *)

\* a finished load of a readable container that holds or yields no point
EmptyLoad ==
    /\ fn \in LoadFns
    /\ pc \in {"returned", "error"}
    /\ las.exists /\ las.readable
    /\ Len(las.recs) = 0 \/ (pc = "returned" /\ Len(points) = 0)

\* C16: a load that yields no point ends in EmptyBufferError, an error
\* of its own, and not in the fault of one of its steps nor in a normal
\* return.
C16_EmptyBufferError == EmptyLoad => pc = "error" /\ err = Some("EmptyBufferError")

----------------------------------------------------------------------------
(* Claims about the end of the render loop *)

\* what holds from the setting of the close flag on: poll_events is not
\* called again, at most the frame of that iteration is rendered, and the
\* loop test reached afterwards ends the loop (a render that raises ends
\* it before that, with the exception)
AfterSignal ==
    /\ signal_at # None
    /\ polls = signal_at[1][1]
    /\ frames <= signal_at[1][2] + 1
    /\ main_pc \in {"polling", "rendering", "loop_top", "done", "exited"}
    /\ main_pc \in {"polling", "rendering"} => frames = signal_at[1][2]
    /\ main_pc = "done" => window = "terminated"

\* C18: once the escape key or the closing of the window has set the
\* close flag, no further poll_events call is made, at most the frame of
\* the current iteration is rendered, and the loop ends.
C18_CloseEndsLoop ==
    /\ [](should_close => AfterSignal)
    /\ should_close ~> (main_pc \in {"done", "exited"})

\* the flag was set during the second poll, the second frame was
\* rendered, and the loop has ended
C18_Witness ==
    /\ should_close
    /\ signal_at = Some(<<2, 1>>)
    /\ frames = 2
    /\ main_pc = "done"
    /\ window = "terminated"

----------------------------------------------------------------------------
(* Claims about repeated and counted dedup *)

\* C19: handing the result of voxel_downsample to voxel_downsample again,
\* with the same voxel size v > 0, returns the same points and colours in
\* the same order.
C19_Idempotent ==
    [][(VoxelDownsampleAgain /\ args.voxel_size[1] > 0) =>
          /\ points' = points
          /\ colors' = colors
          /\ indices' = Some([i \in DOMAIN points |-> i])]_vars

\* a second call on the two points that the first call kept of three,
\* in another order than they came in
C19_Witness ==
    /\ fn = "voxel_downsample" /\ pc = "twice"
    /\ args.voxel_size[1] > 0
    /\ Len(XYZ(las)) = 3
    /\ Len(points) = 2
    /\ points[1] = XYZ(las)[3]
    /\ colors # None

\* C20: voxel_downsample returns at most as many points as it was given,
\* and no two returned points have the same voxel key, neither as stored
\* (int32) nor as floor(coordinate / voxel_size).
C20_NoMoreNoDuplicateKeys ==
    VoxelDone =>
        LET keys == voxel_indices(points, args.voxel_size[1])
        IN  /\ Len(points) <= Len(VoxelInput)
            /\ \A a, b \in DOMAIN points :
                  a # b =>
                      /\ keys[a] # keys[b]
                      /\ MathKey(points[a], args.voxel_size[1])
                            # MathKey(points[b], args.voxel_size[1])

\* three different points of one voxel went in and one came out
C20_Witness ==
    /\ VoxelDone
    /\ Len(VoxelInput) = 3
    /\ Len(points) = 1
    /\ VoxelInput[1] # VoxelInput[2]
    /\ VoxelInput[2] # VoxelInput[3]

----------------------------------------------------------------------------
(* Claims about the classification colours *)

Colorized == fn = "CLASSIFICATION_COLORS.get" /\ pc = "done"

\* C21: the colour looked up for a classification code is, for every
\* integer code, a triple of channels within [0, 1] and no error: the
\* building colour (0.9, 0.1, 0.1) for code 6, and the gray
\* (0.5, 0.5, 0.5) for every code that is no key of the table.
C21_ColorizerTotal ==
    Colorized =>
        LET cls == las.recs[1].classification
            c == colors[1][1]
        IN  /\ err = None
            /\ Len(c) = 3
            /\ \A a \in 1..3 : RLeq(R(0), c[a]) /\ RLeq(c[a], R(1))
            /\ cls = 6 => c = <<Frac(9, 10), Frac(1, 10), Frac(1, 10)>>
            /\ cls \notin EnumeratedCodes =>
                  c = <<Frac(1, 2), Frac(1, 2), Frac(1, 2)>>

\* the code 999, not in the table, was given the default gray
C21_Witness ==
    /\ Colorized
    /\ las.recs[1].classification = 999
    /\ colors = Some(<<(<<Frac(1, 2), Frac(1, 2), Frac(1, 2)>>)>>)

----------------------------------------------------------------------------
(* Claims about scroll, reset and idle moves *)

\* C22: a scroll event calls camera.zoom(-yoffset) once and nothing else,
\* in whichever controller state, and leaves mouse_pressed, mouse_button
\* and the captured cursor position as they were.
C22_ScrollZoomsOnce ==
    [][\A y \in ScrollOffsets :
          scroll_callback(y) =>
              /\ called' = <<Call("zoom", -y, 0)>>
              /\ camera' = zoom(camera, -y)
              /\ mouse_pressed' = mouse_pressed
              /\ mouse_button' = mouse_button
              /\ last_mouse' = last_mouse]_vars

\* a scroll by 6 during a drag with the left button: zoom(-6) was called
\* and the drag goes on
C22_Witness ==
    /\ called = <<Call("zoom", -6, 0)>>
    /\ Dragging(MOUSE_BUTTON_LEFT)
    /\ last_mouse = <<100, 100>>
    /\ events = 2

\* C23: the reset key, pressed or repeated, leaves a camera with the
\* target at the origin, distance 50, azimuth 45 and elevation 30,
\* whatever the camera and the loaded cloud were.
C23_ResetRestoresDefaults ==
    [][\A a \in {"PRESS", "REPEAT"} :
          key_callback("R", a) =>
              /\ camera'.target = [base |-> <<R(0), R(0), R(0)>>, pans |-> <<>>]
              /\ camera'.distance = R(50)
              /\ camera'.azimuth = R(45)
              /\ camera'.elevation = R(30)]_vars

\* the five-kilometre cloud was loaded, the camera turned by a drag, and
\* the reset key has put the camera back
C23_Witness ==
    /\ JustReset
    /\ las = Wide
    /\ events = 3
    /\ mouse_pressed
    /\ last_mouse = <<110, 90>>
    /\ camera.distance = R(50)
    /\ camera.azimuth = R(45)

----------------------------------------------------------------------------
(* Claims about the camera position *)

\* C24: whenever there is a camera, between operations and when a frame
\* is drawn, its position is the spherical-to-Cartesian conversion of its
\* current target, distance, azimuth and elevation.
C24_PositionNeverStale ==
    camera # None =>
        camera.position =
            Spherical(camera.target, camera.distance, camera.azimuth,
                      camera.elevation)

\* a frame has been drawn after load_points, a pan and a zoom
C24_Witness ==
    /\ camera # None
    /\ scene # None
    /\ frames >= 1
    /\ camera.target.pans # <<>>
    /\ called = <<Call("zoom", 1, 0)>>
    /\ main_pc = "loop_top"

----------------------------------------------------------------------------
(* Claims about the order of a frame *)

\* C25: within one iteration of the loop the input callbacks run first,
\* inside poll_events and before the transforms of the frame exist; the
\* transforms are then computed from the camera and the size as the
\* callbacks left them; the points are drawn and the frame presented
\* under these very transforms, no callback having run in between.
C25_FrameIsSequential ==
    [][/\ EventStep =>
             /\ main_pc = "polling" /\ main_pc' = "polling"
             /\ transforms = None /\ transforms' = None
       /\ (SetupTransforms /\ main_pc' = "rendering") =>
             /\ transforms = None
             /\ transforms' = Some(Transforms(window_size, camera))
             /\ camera' = camera /\ events' = events /\ frames' = frames
       /\ Render =>
             /\ transforms = Some(Transforms(window_size, camera))
             /\ camera' = camera /\ events' = events
       /\ frames' # frames =>
             /\ main_pc = "rendering" /\ main_pc' = "loop_top"
             /\ frames' = frames + 1]_vars

\* the second frame is being rendered: a resize and a scroll by 6 came in
\* during the second poll, and the transforms are those of the new size
\* and of the camera after zoom(-6)
C25_Witness ==
    /\ main_pc = "rendering"
    /\ frames = 1
    /\ events = 2
    /\ called = <<Call("zoom", -6, 0)>>
    /\ window_size = <<1280, 720>>
    /\ transforms = Some(Transforms(<<1280, 720>>, camera))
    /\ camera # NewCamera

----------------------------------------------------------------------------
(* Claims about cursor moves that reach no camera operation *)

\* C26: a cursor move while the controller is Idle calls no camera
\* operation and leaves the camera, mouse_pressed, mouse_button and the
\* captured cursor position as they were; a cursor move to p while
\* dragging with a button that is neither left nor right calls no camera
\* operation, leaves the camera and the drag as they were, and makes p
\* the captured position.
C26_MoveWithoutOperation ==
    [][\A p \in CursorPositions :
          mouse_move_callback(p[1], p[2]) =>
              /\ Idle =>
                    /\ called' = <<>>
                    /\ camera' = camera
                    /\ mouse_pressed' = mouse_pressed
                    /\ mouse_button' = mouse_button
                    /\ last_mouse' = last_mouse
              /\ \A b \in Buttons \ {MOUSE_BUTTON_LEFT, MOUSE_BUTTON_RIGHT} :
                    Dragging(b) =>
                        /\ called' = <<>>
                        /\ camera' = camera
                        /\ mouse_pressed' /\ mouse_button' = Some(b)
                        /\ last_mouse' = p]_vars

\* an Idle move to (110, 90), then the middle button pressed there and
\* the cursor moved back to (100, 100): nothing was captured by the first
\* move, (100, 100) is captured now, and the camera is still the one
\* load_points set up
C26_Witness ==
    /\ Dragging(MOUSE_BUTTON_MIDDLE)
    /\ events = 3
    /\ cursor = <<100, 100>>
    /\ last_mouse = <<100, 100>>
    /\ called = <<>>
    /\ camera = fit_camera(NewCamera, points)

----------------------------------------------------------------------------
(* Claims about the int32 conversion of the voxel key *)

\* C27: two points of the input get the same stored (int32) key only if
\* their keys floor(coordinate / voxel_size) are equal on all three axes,
\* so that every key of the input is still the key of a returned point,
\* whatever the coordinates and the voxel size.
C27_Int32KeepsKeysApart ==
    VoxelDone =>
        LET v == args.voxel_size[1]
            keys == voxel_indices(VoxelInput, v)
        IN  /\ \A i, j \in DOMAIN VoxelInput :
                  keys[i] = keys[j] =>
                      MathKey(VoxelInput[i], v) = MathKey(VoxelInput[j], v)
            /\ \A i \in DOMAIN VoxelInput :
                  \E k \in DOMAIN points :
                      MathKey(points[k], v) = MathKey(VoxelInput[i], v)

----------------------------------------------------------------------------
(* Claims about the projection after a resize *)

\* C28: whatever size the last resize event delivered, height 0 and
\* width 0 included, the projection and the view of the next frame are
\* computed without an exception and the loop goes on to draw the frame.
C28_ResizeNeverFaults ==
    [][SetupTransforms =>
          /\ err' = None
          /\ transforms' # None
          /\ main_pc' = "rendering"]_vars


====
